---- MODULE Spec2Model ----
(***************************************************************************)
(* Model of scripts/platformio/platformio-build.py: the BuildEnvironment   *)
(* and ZephyrSdk classes, the Program builder action dontGenerateProgram,  *)
(* setup_builder and the legacy create_default_project_files.              *)
(*                                                                         *)
(* The script defines these operations but its top level calls none of     *)
(* them, so the order in which the host (the SCons based build tool) calls *)
(* them is left open: one invocation is a fresh pair of objects            *)
(* (BuildEnvironment, ZephyrSdk) on which the host calls operations one    *)
(* after the other until one raises (the invocation aborts) or the host    *)
(* exits.  The order of main() and of dontGenerateProgram() is one of the  *)
(* call orders.  Between invocations the user and other tools change the   *)
(* file system.                                                            *)
(*                                                                         *)
(* Time is a logical clock; a write stamps the file with the clock's       *)
(* value, and the clock may or may not advance between two writes (the     *)
(* granularity of file timestamps).                                        *)
(***************************************************************************)
EXTENDS Integers, Sequences, FiniteSets, TLC

VARIABLES
    now,              \* the clock the file system stamps modification times with
    fs,               \* path -> [exists, content, mtime]
    pc,               \* the position of the invocation
    venv_path,        \* BuildEnvironment.venv_path is set (not None)
    need_reconfigure, \* ZephyrSdk.need_reconfigure
    modules,          \* ZephyrSdk.modules
    call,             \* arguments of the build() call in progress
    decision,         \* what _is_reconfigure_required returned in this build() call
    cmd,              \* the external command the invocation ended in
    ret,              \* what exec_command returned for it
    error,            \* the exception that aborted the invocation
    env,              \* BuildEnvironment.env
    hist              \* history: what the previous generation steps and build were given

vars == <<now, fs, pc, venv_path, need_reconfigure, modules, call, decision,
          cmd, ret, error, env, hist>>

(***************************** bounds **************************************)
\* the clock stops at MaxTime
MaxTime == 2
\* PATH is not extended beyond MaxPath segments
MaxPath == 2
\* add_modules is not called once the list holds MaxModules entries
MaxModules == 2
\* the object files of the project are numbered 1..NumFiles, in the
\* lexicographic order of their paths (the order list.sort() puts them in)
NumFiles == 2

(***************************** paths ***************************************)
AppDir == "app"
WestYml == "app/west.yml"
CMakeTxt == "app/CMakeLists.txt"
MainC == "src/main.c"
BuildDir == "build"
CMakeCache == "build/CMakeCache.txt"
MergedHex == "build/merged.hex"
FirmwareElf == "build/firmware.elf"
McubootHex == "build/mcuboot/zephyr/zephyr.hex"
AppHex == "build/app/zephyr/zephyr.hex"
AppElf == "build/app/zephyr/zephyr.elf"
VenvDir == ".venv"

Paths == {AppDir, WestYml, CMakeTxt, MainC, BuildDir, CMakeCache, MergedHex,
          FirmwareElf, McubootHex, AppHex, AppElf, VenvDir}

\* the entries of the build directory itself: creating or removing one of
\* them changes the modification time of the build directory
InBuildDir == {CMakeCache, MergedHex, FirmwareElf}

\* the paths whose modification time some code reads (st_mtime); the
\* modification time of every other path is kept at 0
Timed == {WestYml, CMakeTxt, BuildDir, CMakeCache}

(***************************** values **************************************)
\* the text of a file: which template produced it and from what
NoContent == [tpl |-> "", name |-> "", items |-> <<>>, build_flags |-> <<>>,
              link_flags |-> <<>>]
Opaque == [NoContent EXCEPT !.tpl = "opaque"]
Absent == [exists |-> FALSE, content |-> NoContent, mtime |-> 0]

PROJECT_NAME == "proj"
SDK_VERSION == "v4.3.0"
BUILD_FLAGS == <<"-O2", "-Wl,--gc-sections">>
\* the flags x with x.startswith("-Wl,")
WlFlags == {"-Wl,--gc-sections"}

Outs == {"out1"}
Errs == {"err1"}

NoCall == [raw |-> <<>>, source_files |-> <<>>, cmake_extra_args |-> <<>>]
NoCmd == [name |-> "", pristine |-> FALSE, extra |-> <<>>]
NoRet == [returncode |-> 0, out |-> "", err |-> ""]
NoError == [type |-> "", where |-> "", out |-> "", err |-> "", path |-> ""]
\* west, cmake: the texts the last generation steps rendered; files_in,
\* args: what the build of the previous invocation was given; venv_called:
\* create_venv has returned in this invocation; pending: an artifact was
\* rewritten and no reconfigure build has exited with 0 since; built: the
\* CMakeLists.txt text of the invocation that has just ended, when its
\* reconfigure build exited with 0
NoHist == [west |-> NoContent, cmake |-> NoContent, files_in |-> <<>>,
           args |-> <<>>, venv_called |-> FALSE, pending |-> FALSE,
           built |-> NoContent]

\* the environment variables that are set, and the value of an unset one
EnvKeys == {"PATH", "ZEPHYR_BASE", "ZEPHYR_SDK_INSTALL_DIR"}
Unset == <<>>
NoEnv == [k \in EnvKeys |-> Unset]
\* a value is the list of its os.pathsep separated segments
EnvValues == {<<"a">>, <<"b">>}
\* str(self.zephyr_dir)
ZephyrDir == <<"zephyr">>
\* what "source zephyr-env.sh && env" prints
ScriptOutputs == {"", "PATH=a", "ZEPHYR_BASE=b", "PATH=a\nZEPHYR_BASE=b",
                  "ZEPHYR_SDK_INSTALL_DIR=b",
                  "PATH=a\nZEPHYR_SDK_INSTALL_DIR=b"}

SetOf(s) == {s[i] : i \in 1..Len(s)}

\* the lists of object files SCons collects (PIOBUILDFILES_FINAL), in the
\* order the Object builder was run: all the files in ascending and in
\* descending order, and the first file alone
SourceLists == {[i \in 1..NumFiles |-> i],
                [i \in 1..NumFiles |-> NumFiles + 1 - i],
                <<1>>}
OneSourceList == {[i \in 1..NumFiles |-> i]}
\* build.zephyr.cmake_extra_args of the board, split
ArgLists == {<<"-DX=1">>, <<"-DX=2">>}
OneArgList == {<<"-DX=1">>}
\* what one add_modules call is given
ModuleLists == {<<"m1", "m2">>, <<"m2", "m1">>}

(***************************** the file system *****************************)
Stamp(p, t) == IF p \in Timed THEN t ELSE 0

\* open(p, "w").write(text): the file holds text and is stamped with the
\* clock; a new entry of the build directory stamps the directory too
PutFile(f, p, text, t) ==
    LET g == [f EXCEPT ![p] = [exists |-> TRUE, content |-> text,
                               mtime |-> Stamp(p, t)]]
    IN IF p \in InBuildDir /\ ~f[p].exists
       THEN [g EXCEPT ![BuildDir].mtime = t]
       ELSE g

\* unlink(p)
RemoveFile(f, p, t) ==
    LET g == [f EXCEPT ![p] = Absent]
    IN IF p \in InBuildDir /\ f[p].exists
       THEN [g EXCEPT ![BuildDir].mtime = t]
       ELSE g

RECURSIVE RemoveAll(_, _, _)
RemoveAll(f, ps, t) ==
    IF ps = {} THEN f
    ELSE LET p == CHOOSE q \in ps : TRUE
         IN RemoveAll(RemoveFile(f, p, t), ps \ {p}, t)

\* the number of bytes of a text; the object file paths of the model are
\* equally long, so it is the number of entries that counts
Size(text) == Len(text.items) + Len(text.build_flags) + Len(text.link_flags)

(***************************** pure functions ******************************)
RECURSIVE Insert(_, _)
Insert(x, s) ==
    IF s = <<>> THEN <<x>>
    ELSE IF x <= Head(s) THEN <<x>> \o s
    ELSE <<Head(s)>> \o Insert(x, Tail(s))

RECURSIVE SortList(_)
SortList(s) == IF s = <<>> THEN <<>> ELSE Insert(Head(s), SortList(Tail(s)))

\* a dontGenerateProgram that forgets files.sort()
CollectFilesUnsorted(objs, libs) == objs \o libs

\* files = PIOBUILDFILES_FINAL; files.extend(PIOBUILDLIBS_FINAL); files.sort()
CollectFiles(objs, libs) == SortList(objs \o libs)

c_flags_from_env(flags) == flags

link_flags_from_env(flags) == SelectSeq(flags, LAMBDA x : x \in WlFlags)

\* jinja_env.get_template("CMakeLists.txt.j2").render(context): the text is
\* a function of the context, and two contexts give two texts
RenderCMakeTxt(build_flags, link_flags, source_files, project_name) ==
    [tpl |-> "CMakeLists.txt.j2", name |-> project_name, items |-> source_files,
     build_flags |-> build_flags, link_flags |-> link_flags]

\* jinja_env.get_template("west.yml.j2").render(context)
RenderWestYml(mods, version) ==
    [tpl |-> "west.yml.j2", name |-> version, items |-> mods,
     build_flags |-> <<>>, link_flags |-> <<>>]

\* cmake_tpl of create_default_project_files (no library include paths)
RenderLegacyCMakeTxt(flags, source_files) ==
    [tpl |-> "inline", name |-> PROJECT_NAME, items |-> source_files,
     build_flags |-> flags,
     link_flags |-> SelectSeq(flags, LAMBDA x : x \in WlFlags)]

\* a generation step that writes whatever is on the disk
NeedsWriteAlways(f, p, text) == TRUE

\* (not path.exists()) or (path.read_text() != text)
NeedsWrite(f, p, text) == (~f[p].exists) \/ (f[p].content # text)

\* self.need_reconfigure = True, inside the branch that wrote the file
FlagAfterGeneration(flag, wrote) == IF wrote THEN TRUE ELSE flag

\* filecmp.cmp(tmp, txt) with shallow=True, its default: two regular files
\* with the same size and modification time are taken to be equal without
\* being read
FilecmpCmp(size1, mtime1, text1, size2, mtime2, text2) ==
    IF size1 = size2 /\ mtime1 = mtime2 THEN TRUE
    ELSE IF size1 # size2 THEN FALSE
    ELSE text1 = text2

\* a decision that takes a file that is as old as what it is compared with
\* to be newer
IsReconfigureRequiredOrEqual(f, flag) ==
    IF flag THEN "True"
    ELSE IF ~f[WestYml].exists \/ ~f[BuildDir].exists THEN "FileNotFoundError"
    ELSE IF f[WestYml].mtime >= f[BuildDir].mtime THEN "True"
    ELSE IF ~f[CMakeTxt].exists \/ ~f[CMakeCache].exists THEN "FileNotFoundError"
    ELSE IF f[CMakeTxt].mtime >= f[CMakeCache].mtime THEN "True"
    ELSE "False"

\* ZephyrSdk._is_reconfigure_required: "True", "False", or the exception
\* a stat() of a missing path raises
IsReconfigureRequired(f, flag) ==
    IF flag THEN "True"
    ELSE IF ~f[WestYml].exists \/ ~f[BuildDir].exists THEN "FileNotFoundError"
    ELSE IF f[WestYml].mtime > f[BuildDir].mtime THEN "True"
    ELSE IF ~f[CMakeTxt].exists \/ ~f[CMakeCache].exists THEN "FileNotFoundError"
    ELSE IF f[CMakeTxt].mtime > f[CMakeCache].mtime THEN "True"
    ELSE "False"

\* the path whose stat() raises in _is_reconfigure_required
MissingStat(f) ==
    IF ~f[WestYml].exists THEN WestYml
    ELSE IF ~f[BuildDir].exists THEN BuildDir
    ELSE IF ~f[CMakeTxt].exists THEN CMakeTxt
    ELSE CMakeCache

\* an _is_reconfigure_required that clears the flag it has read
FlagAfterDecisionCleared(flag) == FALSE

\* _is_reconfigure_required reads self.need_reconfigure and never assigns it
FlagAfterDecision(flag) == flag

(***************************** external commands ***************************)
Rets == [returncode : {0, 1}, out : Outs, err : Errs]

Raise(type, where, path) ==
    [type |-> type, where |-> where, out |-> "", err |-> "", path |-> path]

\* check_command: RuntimeError carrying stdout and stderr on a non-zero
\* exit code
CheckCommand(r, where) ==
    IF r.returncode # 0
    THEN [type |-> "RuntimeError", where |-> where, out |-> r.out,
          err |-> r.err, path |-> ""]
    ELSE NoError

\* how run_python ends once exec_command has returned r: the message
\* argument of check_command, ' '.join(cmd), is evaluated before the call,
\* and cmd[0] is the Path that _python() returns, not a str
RunPythonEnd(r, where) == Raise("TypeError", where, "")

\* BuildEnvironment._python raises when venv_path is None
NoVenvError(where) == Raise("RuntimeError", where, "")

BuildOutputs == {McubootHex, AppHex, AppElf}

\* what "west build" does to the build directory.  -p (pristine) empties it
\* first.  A configure step writes CMakeCache.txt; it is run when -p was
\* given or no cache exists, and may be run otherwise.  A build that exits
\* with 0 leaves the MCUboot and application images.
WestBuildOutcomes(f, pristine, rc, t) ==
    LET wiped == IF pristine
                 THEN RemoveAll(f, InBuildDir \cup BuildOutputs, t)
                 ELSE f
        configured == PutFile(wiped, CMakeCache, Opaque, t)
        built(g) == [p \in Paths |->
                        IF p \in BuildOutputs
                        THEN [exists |-> TRUE, content |-> Opaque, mtime |-> 0]
                        ELSE g[p]]
        touched(g) == {g, [g EXCEPT ![BuildDir].mtime = t]}
    IN IF rc = 0
       THEN touched(built(configured))
            \cup (IF wiped[CMakeCache].exists
                  THEN touched(built(wiped))
                  ELSE {})
       ELSE {wiped} \cup touched(configured)

(***************************** environment variables ***********************)
\* a set_env that replaces the value of a key that is already set
set_env_overwriting(e, key, value) ==
    [env |-> [e EXCEPT ![key] = value], raised |-> FALSE]

\* BuildEnvironment.set_env: the mapping it leaves and whether it raised
set_env(e, key, value) ==
    IF e[key] # Unset
    THEN IF key = "PATH"
         THEN [env |-> [e EXCEPT ![key] = value \o e[key]], raised |-> FALSE]
         ELSE [env |-> e, raised |-> TRUE]
    ELSE [env |-> [e EXCEPT ![key] = value], raised |-> FALSE]

\* BuildEnvironment.set_envs: set_env for each item of the dict, in its
\* order, until one raises
RECURSIVE set_envs(_, _)
set_envs(e, pairs) ==
    IF pairs = <<>> THEN [env |-> e, raised |-> FALSE, key |-> ""]
    ELSE LET r == set_env(e, pairs[1][1], pairs[1][2])
         IN IF r.raised
            THEN [env |-> r.env, raised |-> TRUE, key |-> pairs[1][1]]
            ELSE set_envs(r.env, Tail(pairs))

\* load_env_from_script: line.partition("=") of each line of the output
ParseEnv(out) ==
    CASE out = "" -> <<>>
      [] out = "PATH=a" -> << <<"PATH", <<"a">> >> >>
      [] out = "ZEPHYR_BASE=b" -> << <<"ZEPHYR_BASE", <<"b">> >> >>
      [] out = "PATH=a\nZEPHYR_BASE=b" ->
             << <<"PATH", <<"a">> >>, <<"ZEPHYR_BASE", <<"b">> >> >>
      [] out = "ZEPHYR_SDK_INSTALL_DIR=b" ->
             << <<"ZEPHYR_SDK_INSTALL_DIR", <<"b">> >> >>
      [] out = "PATH=a\nZEPHYR_SDK_INSTALL_DIR=b" ->
             << <<"PATH", <<"a">> >>, <<"ZEPHYR_SDK_INSTALL_DIR", <<"b">> >> >>

KeysOf(pairs) == {pairs[i][1] : i \in 1..Len(pairs)}

(***************************** the invocation ******************************)
\* the fields of a fresh BuildEnvironment and ZephyrSdk
FreshObjects ==
    /\ venv_path = FALSE
    /\ need_reconfigure = FALSE
    /\ modules = <<>>
    /\ call = NoCall
    /\ decision = ""
    /\ cmd = NoCmd
    /\ ret = NoRet
    /\ error = NoError
    /\ env = NoEnv

Init ==
    /\ now = 0
    /\ fs = [p \in Paths |->
                IF p = BuildDir
                THEN [exists |-> TRUE, content |-> Opaque, mtime |-> 0]
                ELSE Absent]
    /\ pc = "idle"
    /\ FreshObjects
    /\ hist = NoHist

\* the exception leaves the operation and ends the invocation
Abort(e) ==
    /\ pc' = "aborted"
    /\ error' = e

\* a new process: BuildEnvironment.__init__ and ZephyrSdk.__init__
NewInvocation ==
    /\ pc = "idle"
    /\ pc' = "ready"
    /\ UNCHANGED <<now, fs, venv_path, need_reconfigure, modules, call,
                   decision, cmd, ret, error, hist>>
    /\ UNCHANGED env

\* BuildEnvironment.create_venv(project_dir / ".venv")
CreateVenv ==
    /\ pc = "ready"
    /\ IF fs[VenvDir].exists
       THEN UNCHANGED <<fs, pc, venv_path, cmd, ret, error>>
       ELSE \E r \in Rets :
              LET e == CheckCommand(r, "create_venv")
              IN IF e # NoError
                 THEN /\ Abort(e)
                      /\ cmd' = [NoCmd EXCEPT !.name = "venv"]
                      /\ ret' = r
                      /\ \E left \in BOOLEAN :
                           fs' = IF left
                                 THEN PutFile(fs, VenvDir, Opaque, now)
                                 ELSE fs
                      /\ UNCHANGED venv_path
                 ELSE /\ fs' = PutFile(fs, VenvDir, Opaque, now)
                      /\ venv_path' = TRUE
                      /\ UNCHANGED <<pc, error, cmd, ret>>
    /\ hist' = [hist EXCEPT !.venv_called = (pc' = "ready")]
    /\ UNCHANGED <<now, need_reconfigure, modules, call, decision>>
    /\ UNCHANGED env

\* BuildEnvironment.install_requirements(framework_dir / "requirements.txt")
InstallRequirements ==
    /\ pc = "ready"
    /\ IF ~venv_path
       THEN /\ Abort(NoVenvError("install_requirements"))
            /\ UNCHANGED <<cmd, ret>>
       ELSE \E r \in Rets :
              LET e == CheckCommand(r, "install_requirements")
              IN IF e # NoError
                 THEN /\ Abort(e)
                      /\ cmd' = [NoCmd EXCEPT !.name = "pip install"]
                      /\ ret' = r
                 ELSE UNCHANGED <<pc, error, cmd, ret>>
    /\ UNCHANGED <<now, fs, venv_path, need_reconfigure, modules, call,
                   decision, hist>>
    /\ UNCHANGED env

\* main(): build_env.run_python([toolchain / "install.py"])
RunToolchainInstaller ==
    /\ pc = "ready"
    /\ IF ~venv_path
       THEN /\ Abort(NoVenvError("run_python"))
            /\ UNCHANGED <<cmd, ret>>
       ELSE \E r \in Rets :
              /\ cmd' = [NoCmd EXCEPT !.name = "install.py"]
              /\ ret' = r
              /\ Abort(RunPythonEnd(r, "run_python"))
    /\ UNCHANGED <<now, fs, venv_path, need_reconfigure, modules, call,
                   decision, hist>>
    /\ UNCHANGED env

\* ZephyrSdk.add_modules(l)
AddModules ==
    /\ pc = "ready"
    /\ \E l \in ModuleLists :
         /\ Len(modules) + Len(l) <= MaxModules
         /\ modules' = modules \o l
    /\ UNCHANGED <<now, fs, pc, venv_path, need_reconfigure, call, decision,
                   cmd, ret, error, hist>>
    /\ UNCHANGED env

\* ZephyrSdk.install(), its first statement: _generate_west_config().
\* write_text raises when the app directory does not exist
GenerateWestConfig ==
    /\ pc = "ready"
    /\ LET text == RenderWestYml(modules, SDK_VERSION)
           wrote == NeedsWrite(fs, WestYml, text)
       IN IF wrote /\ ~fs[AppDir].exists
             THEN /\ Abort(Raise("FileNotFoundError", "_generate_west_config",
                                 WestYml))
                  /\ hist' = [hist EXCEPT !.west = NoContent]
                  /\ UNCHANGED <<fs, need_reconfigure>>
             ELSE /\ fs' = IF wrote THEN PutFile(fs, WestYml, text, now) ELSE fs
                  /\ hist' = [hist EXCEPT !.west = text,
                                          !.pending = IF wrote THEN TRUE ELSE @]
                  /\ need_reconfigure' = FlagAfterGeneration(need_reconfigure, wrote)
                  /\ pc' = "install"
                  /\ UNCHANGED error
    /\ UNCHANGED <<now, venv_path, modules, call, decision, cmd, ret>>
    /\ UNCHANGED env

\* ZephyrSdk.install(), after _generate_west_config: "west init -l app"
\* when there is no .west, else "west update"; run_python does not return.
\* The workspace's .west directory is not part of the state: either command
\* may be the one that is run
InstallWest ==
    /\ pc = "install"
    /\ IF ~venv_path
       THEN /\ Abort(NoVenvError("run_python"))
            /\ UNCHANGED <<cmd, ret>>
       ELSE \E r \in Rets, dot_west \in BOOLEAN :
              /\ ret' = r
              /\ cmd' = [NoCmd EXCEPT !.name = IF dot_west THEN "west update"
                                               ELSE "west init"]
              /\ Abort(RunPythonEnd(r, "run_python"))
    /\ UNCHANGED <<now, fs, venv_path, need_reconfigure, modules, call,
                   decision, hist>>
    /\ UNCHANGED env

\* setup_builder(zephyr, env): removes a firmware.elf left by an earlier
\* build, then registers the builders
SetupBuilder ==
    /\ pc = "ready"
    /\ fs' = IF fs[FirmwareElf].exists THEN RemoveFile(fs, FirmwareElf, now)
             ELSE fs
    /\ UNCHANGED <<now, pc, venv_path, need_reconfigure, modules, call,
                   decision, cmd, ret, error, hist>>
    /\ UNCHANGED env

\* a west command line that always asks for a pristine build
WestCmdPristine(d, args) ==
    [name |-> "west build", pristine |-> TRUE, extra |-> args]

\* the west command line that build() puts together: -p when
\* _is_reconfigure_required() returned True
WestCmd(d, args) ==
    [name |-> "west build", pristine |-> (d = "True"), extra |-> args]

\* dontGenerateProgram up to its call of build(), and the first statement
\* of build(): _generate_project_files(build_flags, link_flags, files)
GenerateProjectFilesOf(lists, arglists) ==
    /\ pc = "ready"
    /\ \E raw \in lists, k \in 0..NumFiles, args \in arglists :
         /\ k <= Len(raw)
         /\ LET objs == SubSeq(raw, 1, k)
                libs == SubSeq(raw, k + 1, Len(raw))
                files == CollectFiles(objs, libs)
                text == RenderCMakeTxt(c_flags_from_env(BUILD_FLAGS),
                                       link_flags_from_env(BUILD_FLAGS),
                                       files, PROJECT_NAME)
                f1 == [fs EXCEPT ![AppDir] =
                          [exists |-> TRUE, content |-> Opaque, mtime |-> 0]]
                wrote == NeedsWrite(f1, CMakeTxt, text)
                f2 == IF wrote THEN PutFile(f1, CMakeTxt, text, now) ELSE f1
                f3 == IF ~f2[MainC].exists
                      THEN PutFile(f2, MainC, Opaque, now)
                      ELSE f2
            IN /\ call' = [raw |-> raw, source_files |-> files,
                           cmake_extra_args |-> args]
               /\ fs' = f3
               /\ need_reconfigure' = FlagAfterGeneration(need_reconfigure, wrote)
               /\ hist' = [hist EXCEPT !.cmake = text,
                                       !.pending = IF wrote THEN TRUE ELSE @]
    /\ pc' = "decide"
    /\ UNCHANGED <<now, venv_path, modules, decision, cmd, ret, error>>
    /\ UNCHANGED env

GenerateProjectFiles == GenerateProjectFilesOf(SourceLists, ArgLists)

\* build(): the evaluation of self._is_reconfigure_required() while the
\* west command line is put together
Decide ==
    /\ pc = "decide"
    /\ LET d == IsReconfigureRequired(fs, need_reconfigure)
       IN IF d = "FileNotFoundError"
          THEN /\ Abort(Raise(d, "_is_reconfigure_required", MissingStat(fs)))
               /\ UNCHANGED decision
          ELSE /\ decision' = d
               /\ pc' = "launch"
               /\ UNCHANGED error
    /\ need_reconfigure' = FlagAfterDecision(need_reconfigure)
    /\ UNCHANGED <<now, fs, venv_path, modules, call, cmd, ret, hist>>
    /\ UNCHANGED env

\* build(): self.build_env.run_python(west_cmd, cwd=workspace_dir)
WestBuild ==
    /\ pc = "launch"
    /\ IF ~venv_path
       THEN /\ Abort(NoVenvError("run_python"))
            /\ UNCHANGED <<fs, cmd, ret>>
       ELSE \E r \in Rets :
              LET c == WestCmd(decision, call.cmake_extra_args)
              IN /\ cmd' = c
                 /\ ret' = r
                 /\ fs' \in WestBuildOutcomes(fs, c.pristine, r.returncode, now)
                 /\ Abort(RunPythonEnd(r, "run_python"))
    /\ UNCHANGED <<now, venv_path, need_reconfigure, modules, call, decision,
                   hist>>
    /\ UNCHANGED env

\* a merge_mcuboot without the two is_file() tests
MergeMcubootUnchecked ==
    /\ pc = "ready"
    /\ IF ~venv_path
       THEN /\ Abort(NoVenvError("run_python"))
            /\ UNCHANGED <<fs, cmd, ret>>
       ELSE \E r \in Rets :
              /\ cmd' = [NoCmd EXCEPT !.name = "mergehex.py"]
              /\ ret' = r
              /\ fs' = IF r.returncode = 0
                       THEN PutFile(fs, MergedHex, Opaque, now)
                       ELSE fs
              /\ Abort(RunPythonEnd(r, "run_python"))
    /\ UNCHANGED <<now, venv_path, need_reconfigure, modules, call, decision,
                   hist>>
    /\ UNCHANGED env

\* ZephyrSdk.merge_mcuboot(build_dir / "merged.hex")
MergeMcuboot ==
    /\ pc = "ready"
    /\ IF ~fs[McubootHex].exists
       THEN /\ Abort(Raise("RuntimeError", "merge_mcuboot", McubootHex))
            /\ UNCHANGED <<fs, cmd, ret>>
       ELSE IF ~fs[AppHex].exists
       THEN /\ Abort(Raise("RuntimeError", "merge_mcuboot", AppHex))
            /\ UNCHANGED <<fs, cmd, ret>>
       ELSE IF ~venv_path
       THEN /\ Abort(NoVenvError("run_python"))
            /\ UNCHANGED <<fs, cmd, ret>>
       ELSE \E r \in Rets :
              /\ cmd' = [NoCmd EXCEPT !.name = "mergehex.py"]
              /\ ret' = r
              /\ fs' = IF r.returncode = 0
                       THEN PutFile(fs, MergedHex, Opaque, now)
                       ELSE fs
              /\ Abort(RunPythonEnd(r, "run_python"))
    /\ UNCHANGED <<now, venv_path, need_reconfigure, modules, call, decision,
                   hist>>
    /\ UNCHANGED env

\* ZephyrSdk.copy_app_elf(build_dir / "firmware.elf")
CopyAppElf ==
    /\ pc = "ready"
    /\ IF ~fs[AppElf].exists
       THEN /\ Abort(Raise("RuntimeError", "copy_app_elf", AppElf))
            /\ UNCHANGED fs
       ELSE /\ fs' = PutFile(fs, FirmwareElf, Opaque, now)
            /\ UNCHANGED <<pc, error>>
    /\ UNCHANGED <<now, venv_path, need_reconfigure, modules, call, decision,
                   cmd, ret, hist>>
    /\ UNCHANGED env

\* build_env.set_env(key, value), as main() calls it for
\* ZEPHYR_SDK_INSTALL_DIR
SetEnv ==
    /\ pc = "ready"
    /\ \E key \in {"PATH", "ZEPHYR_SDK_INSTALL_DIR"}, value \in EnvValues :
         /\ key = "PATH" => Len(env[key]) + Len(value) <= MaxPath
         /\ LET r == set_env(env, key, value)
            IN /\ env' = r.env
               /\ IF r.raised
                  THEN Abort(Raise("RuntimeError", "set_env", key))
                  ELSE UNCHANGED <<pc, error>>
    /\ UNCHANGED <<now, fs, venv_path, need_reconfigure, modules, call,
                   decision, cmd, ret, hist>>

\* ZephyrSdk.install(), after the west commands:
\* build_env.load_env_from_script(zephyr_dir / "zephyr-env.sh")
LoadEnvFromScript ==
    /\ pc = "ready"
    /\ \/ \E r \in Rets :
            /\ r.returncode # 0
            /\ Abort(CheckCommand(r, "load_env_from_script"))
            /\ cmd' = [NoCmd EXCEPT !.name = "zephyr-env.sh"]
            /\ ret' = r
            /\ UNCHANGED env
       \/ \E out \in ScriptOutputs, err \in Errs :
            LET pairs == ParseEnv(out)
                r == set_envs(env, pairs)
            IN /\ "PATH" \in KeysOf(pairs) => Len(env["PATH"]) < MaxPath
               /\ ret' = [returncode |-> 0, out |-> out, err |-> err]
               /\ env' = r.env
               /\ IF r.raised
                  THEN Abort(Raise("RuntimeError", "load_env_from_script",
                                   r.key))
                  ELSE pc' = "loaded" /\ UNCHANGED error
               /\ UNCHANGED cmd
    /\ UNCHANGED <<now, fs, venv_path, need_reconfigure, modules, call,
                   decision, hist>>

\* ZephyrSdk.install(), its last statement:
\* build_env.set_env("ZEPHYR_BASE", str(self.zephyr_dir))
SetZephyrBase ==
    /\ pc = "loaded"
    /\ LET r == set_env(env, "ZEPHYR_BASE", ZephyrDir)
       IN /\ env' = r.env
          /\ IF r.raised
             THEN Abort(Raise("RuntimeError", "install", "ZEPHYR_BASE"))
             ELSE pc' = "ready" /\ UNCHANGED error
    /\ UNCHANGED <<now, fs, venv_path, need_reconfigure, modules, call,
                   decision, cmd, ret, hist>>

\* the process ends, after an exception or because the host is done; what
\* this invocation's build was given is remembered for the next one
Exit ==
    /\ pc \in {"ready", "aborted", "legacy"}
    /\ pc' = "idle"
    /\ venv_path' = FALSE
    /\ need_reconfigure' = FALSE
    /\ modules' = <<>>
    /\ call' = NoCall
    /\ decision' = ""
    /\ cmd' = NoCmd
    /\ ret' = NoRet
    /\ error' = NoError
    /\ env' = NoEnv
    /\ LET done == cmd.name = "west build" /\ cmd.pristine /\ ret.returncode = 0
       IN hist' = [hist EXCEPT
                     !.files_in = IF call # NoCall THEN call.raw ELSE @,
                     !.args = IF cmd.name = "west build" THEN cmd.extra ELSE @,
                     !.venv_called = FALSE,
                     !.pending = IF done THEN FALSE ELSE @,
                     !.built = IF done THEN hist.cmake ELSE NoContent]
    /\ UNCHANGED <<now, fs>>

\* the legacy create_default_project_files(source_files), run by a process
\* of its own
CreateDefaultProjectFiles ==
    /\ pc = "idle"
    /\ \E source_files \in SourceLists :
         LET text == RenderLegacyCMakeTxt(BUILD_FLAGS, source_files)
             f1 == [fs EXCEPT ![AppDir] =
                       [exists |-> TRUE, content |-> Opaque, mtime |-> 0]]
             old == f1[CMakeTxt]
             same == old.exists /\ FilecmpCmp(Size(text), now, text,
                                              Size(old.content), old.mtime,
                                              old.content)
             f2 == IF ~same THEN PutFile(f1, CMakeTxt, text, now) ELSE f1
             f3 == IF ~f2[MainC].exists
                   THEN PutFile(f2, MainC, Opaque, now)
                   ELSE f2
         IN /\ fs' = f3
            /\ hist' = [hist EXCEPT !.cmake = text]
    /\ pc' = "legacy"
    /\ UNCHANGED <<now, venv_path, need_reconfigure, modules, call, decision,
                   cmd, ret, error>>
    /\ UNCHANGED env

(***************************** the environment *****************************)
Tick ==
    /\ now < MaxTime
    /\ now' = now + 1
    /\ UNCHANGED <<fs, pc, venv_path, need_reconfigure, modules, call,
                   decision, cmd, ret, error, hist>>
    /\ UNCHANGED env

\* between invocations the user saves a watched file again
ExternalTouch ==
    /\ pc = "idle"
    /\ \E p \in {WestYml, CMakeTxt} :
         /\ fs[p].exists
         /\ fs' = [fs EXCEPT ![p].mtime = now]
         /\ hist' = IF p = WestYml
                    THEN [hist EXCEPT !.west = NoContent, !.built = NoContent]
                    ELSE [hist EXCEPT !.cmake = NoContent, !.built = NoContent]
    /\ UNCHANGED <<now, pc, venv_path, need_reconfigure, modules, call,
                   decision, cmd, ret, error>>
    /\ UNCHANGED env

\* between invocations the user removes the virtual environment, west.yml
\* or the CMake cache
ExternalRemoveOf(ps) ==
    /\ pc = "idle"
    /\ \E p \in ps :
         /\ fs[p].exists
         /\ fs' = RemoveFile(fs, p, now)
         /\ hist' = IF p = WestYml
                    THEN [hist EXCEPT !.west = NoContent, !.built = NoContent]
                    ELSE IF p = CMakeCache
                    THEN [hist EXCEPT !.built = NoContent]
                    ELSE hist
    /\ UNCHANGED <<now, pc, venv_path, need_reconfigure, modules, call,
                   decision, cmd, ret, error>>
    /\ UNCHANGED env

ExternalRemove == ExternalRemoveOf({VenvDir, WestYml, CMakeCache})

Next ==
    \/ NewInvocation
    \/ CreateVenv
    \/ InstallRequirements
    \/ RunToolchainInstaller
    \/ AddModules
    \/ GenerateWestConfig
    \/ InstallWest
    \/ SetupBuilder
    \/ GenerateProjectFiles
    \/ Decide
    \/ WestBuild
    \/ MergeMcuboot
    \/ CopyAppElf
    \/ SetEnv
    \/ LoadEnvFromScript
    \/ SetZephyrBase
    \/ Exit
    \/ CreateDefaultProjectFiles
    \/ Tick
    \/ ExternalTouch
    \/ ExternalRemove

Spec == Init /\ [][Next]_vars

\* the build of a project without modules
NextBuild ==
    \/ NewInvocation
    \/ CreateVenv
    \/ GenerateWestConfig
    \/ InstallWest
    \/ GenerateProjectFiles
    \/ Decide
    \/ WestBuild
    \/ Exit
    \/ Tick
    \/ ExternalTouch
    \/ ExternalRemove

SpecBuild == Init /\ [][NextBuild]_vars

\* the generation steps, for one board configuration: no virtual
\* environment is ever created, so no external command runs
GenerateProjectFilesOneBoard == GenerateProjectFilesOf(SourceLists, OneArgList)

NextGen ==
    \/ NewInvocation
    \/ AddModules
    \/ GenerateWestConfig
    \/ InstallWest
    \/ GenerateProjectFilesOneBoard
    \/ Decide
    \/ WestBuild
    \/ Exit
    \/ CreateDefaultProjectFiles
    \/ Tick
    \/ ExternalTouch
    \/ ExternalRemove

SpecGen == Init /\ [][NextGen]_vars

\* every operation of the two objects, on a project whose inputs do not
\* change and whose files only the operations themselves change
GenerateProjectFilesOneInput ==
    GenerateProjectFilesOf(OneSourceList, OneArgList)

RemoveVenv == ExternalRemoveOf({VenvDir})

NextObjects ==
    \/ NewInvocation
    \/ CreateVenv
    \/ InstallRequirements
    \/ RunToolchainInstaller
    \/ AddModules
    \/ GenerateWestConfig
    \/ InstallWest
    \/ SetupBuilder
    \/ GenerateProjectFilesOneInput
    \/ Decide
    \/ WestBuild
    \/ MergeMcuboot
    \/ CopyAppElf
    \/ Exit
    \/ Tick
    \/ RemoveVenv

SpecObjects == Init /\ [][NextObjects]_vars

\* the builds of a project for one board configuration, one after the
\* other, while the user edits the generated files and recreates the
\* virtual environment
NextRebuild ==
    \/ NewInvocation
    \/ CreateVenv
    \/ GenerateWestConfig
    \/ InstallWest
    \/ GenerateProjectFilesOneBoard
    \/ Decide
    \/ WestBuild
    \/ Exit
    \/ Tick
    \/ ExternalTouch
    \/ RemoveVenv

SpecRebuild == Init /\ [][NextRebuild]_vars

\* the operations on the environment variables alone
NextEnv ==
    \/ NewInvocation
    \/ SetEnv
    \/ LoadEnvFromScript
    \/ SetZephyrBase
    \/ Exit

SpecEnv == Init /\ [][NextEnv]_vars

\* the build of a project whose inputs do not change, by objects that hold
\* modules and environment variables, within one tick of the clock
NextDecide ==
    \/ NewInvocation
    \/ CreateVenv
    \/ SetEnv
    \/ AddModules
    \/ GenerateWestConfig
    \/ InstallWest
    \/ GenerateProjectFilesOneInput
    \/ Decide
    \/ WestBuild
    \/ Exit
    \/ RemoveVenv

SpecDecide == Init /\ [][NextDecide]_vars

(***************************** properties **********************************)
\* the step that is an evaluation of _is_reconfigure_required raised
DecisionRaised == pc = "aborted" /\ error.where = "_is_reconfigure_required"

\* the step that is an evaluation of _is_reconfigure_required returned
DecisionReturned == pc = "launch"

WatchedFiles == {WestYml, CMakeTxt}

NewerThanCache(p) == fs[p].exists /\ fs[p].mtime > fs[CMakeCache].mtime

\* the steps that are generation steps, as action formulas
WestConfigStep ==
    /\ pc = "ready"
    /\ \/ pc' = "install"
       \/ pc' = "aborted" /\ error'.where = "_generate_west_config"

ProjectFilesStep == pc = "ready" /\ pc' = "decide"

LegacyStep == pc = "idle" /\ pc' = "legacy"

Written(text, p) == [exists |-> TRUE, content |-> text, mtime |-> now]

\* C1: when CMakeCache.txt does not exist (and west.yml does, so that no
\* missing watched file plays a part), the reconfigure decision evaluated in
\* build() returns True: it neither returns False nor raises.
C1_MarkerAbsentDecidesTrue ==
    (~fs[CMakeCache].exists /\ fs[WestYml].exists)
        => /\ ~DecisionRaised
           /\ DecisionReturned => decision = "True"

\* C2: with CMakeCache.txt present, a watched file (west.yml, CMakeLists.txt)
\* whose modification time is strictly greater than that of CMakeCache.txt
\* makes the decision return True, whatever the modification time of the
\* build directory and whether or not an artifact was rewritten.
C2_NewerWatchedFileDecidesTrue ==
    (/\ fs[CMakeCache].exists
     /\ \A p \in WatchedFiles : fs[p].exists
     /\ \E p \in WatchedFiles : NewerThanCache(p))
        => /\ ~DecisionRaised
           /\ DecisionReturned => decision = "True"

\* C3: when CMakeCache.txt exists, need_reconfigure is false and no watched
\* file (both exist) has a modification time strictly greater than that of
\* CMakeCache.txt, the decision returns False (and the build is launched
\* without -p).
C3_NoSpuriousReconfigure ==
    (/\ fs[CMakeCache].exists
     /\ ~need_reconfigure
     /\ \A p \in WatchedFiles : fs[p].exists /\ ~NewerThanCache(p))
        => /\ ~DecisionRaised
           /\ DecisionReturned => decision = "False"

\* C4: the decision evaluated while west.yml does not exist raises nothing,
\* and the absence alone does not force a reconfigure: it returns what
\* CMakeLists.txt and the flag alone give.
C4_MissingWatchedPathTolerated ==
    ~fs[WestYml].exists
        => /\ ~DecisionRaised
           /\ (/\ DecisionReturned
               /\ ~need_reconfigure
               /\ fs[CMakeCache].exists
               /\ ~NewerThanCache(CMakeTxt))
                 => decision = "False"

\* C5: a generation step (west.yml in _generate_west_config, CMakeLists.txt
\* in _generate_project_files and in create_default_project_files) writes the
\* file if and only if the file is absent or its content differs from the
\* rendered text; the ZephyrSdk steps set need_reconfigure in exactly those
\* cases, and otherwise leave the file and the flag as they were.
C5_WritesIffAbsentOrDifferent ==
    [][/\ WestConfigStep =>
            LET text == RenderWestYml(modules, SDK_VERSION)
            IN IF ~fs[WestYml].exists \/ fs[WestYml].content # text
               THEN fs'[WestYml] = Written(text, WestYml) /\ need_reconfigure'
               ELSE /\ fs'[WestYml] = fs[WestYml]
                    /\ need_reconfigure' = need_reconfigure
       /\ ProjectFilesStep =>
            LET text == hist'.cmake
            IN IF ~fs[CMakeTxt].exists \/ fs[CMakeTxt].content # text
               THEN fs'[CMakeTxt] = Written(text, CMakeTxt) /\ need_reconfigure'
               ELSE /\ fs'[CMakeTxt] = fs[CMakeTxt]
                    /\ need_reconfigure' = need_reconfigure
       /\ LegacyStep =>
            LET text == hist'.cmake
            IN IF ~fs[CMakeTxt].exists \/ fs[CMakeTxt].content # text
               THEN fs'[CMakeTxt] = Written(text, CMakeTxt)
               ELSE fs'[CMakeTxt] = fs[CMakeTxt]
      ]_vars

\* C6: of two consecutive generation steps of ZephyrSdk on the same artifact
\* with identical inputs (hist holds the text the previous step rendered,
\* until something else changes the file), the second writes nothing: the
\* file, its modification time included, is as the first step left it.
C6_GenerationIdempotent ==
    [][/\ (WestConfigStep /\ hist.west = RenderWestYml(modules, SDK_VERSION))
            => fs'[WestYml] = fs[WestYml]
       /\ (ProjectFilesStep /\ hist.cmake = hist'.cmake)
            => fs'[CMakeTxt] = fs[CMakeTxt]
      ]_vars

\* a second generation step has run on a west.yml that an earlier step of
\* another invocation wrote at an earlier time, and has left it alone
C6_Witness ==
    /\ pc = "install"
    /\ ~need_reconfigure
    /\ fs[WestYml].exists
    /\ fs[WestYml].content = hist.west
    /\ fs[WestYml].mtime < now

\* C7: need_reconfigure is false on a fresh ZephyrSdk and, once true, no
\* operation of the object sets it back to false (the flag is lost only
\* with the object, when the process ends).
C7_FlagMonotonic ==
    [][/\ (pc = "idle" /\ pc' = "ready") => ~need_reconfigure'
       /\ (need_reconfigure /\ pc' # "idle") => need_reconfigure'
      ]_vars

\* the flag a generation step set is still set after the decision and after
\* the west build that followed it
C7_Witness ==
    /\ pc = "aborted"
    /\ cmd.name = "west build"
    /\ need_reconfigure

\* C8: an external command that exits with a non-zero code aborts the
\* invocation with an error that carries the captured stdout and stderr.
C8_FailedCommandReported ==
    (pc = "aborted" /\ cmd # NoCmd /\ ret.returncode # 0)
        => /\ error.type = "RuntimeError"
           /\ error.out = ret.out
           /\ error.err = ret.err

\* C9: when the previous generation of CMakeLists.txt was given the same set
\* of source files, in whatever order, the generation step of this
\* invocation renders the same text: it does not write CMakeLists.txt and
\* does not set need_reconfigure.
C9_SourceOrderIrrelevant ==
    [][(/\ ProjectFilesStep
        /\ hist.cmake.tpl = "CMakeLists.txt.j2"
        /\ SetOf(call'.raw) = SetOf(hist.files_in))
          => /\ fs'[CMakeTxt] = fs[CMakeTxt]
             /\ need_reconfigure' = need_reconfigure
      ]_vars

\* the same files in another order than in the previous invocation, and
\* CMakeLists.txt was not rewritten
C9_Witness ==
    /\ pc = "decide"
    /\ call.raw # hist.files_in
    /\ SetOf(call.raw) = SetOf(hist.files_in)
    /\ ~need_reconfigure
    /\ fs[CMakeTxt].content = hist.cmake

\* C10: when the extra CMake arguments of this invocation differ, as sets,
\* from those of the previous invocation's build, the build of this
\* invocation is a reconfigure build (west build -p).
C10_ArgumentDriftReconfigures ==
    (/\ pc = "aborted"
     /\ cmd.name = "west build"
     /\ hist.args # <<>>
     /\ SetOf(cmd.extra) # SetOf(hist.args))
        => cmd.pristine

\* C11: merge_mcuboot started while the MCUboot hex or the application hex
\* is missing runs no merge script and leaves merged.hex as it is;
\* copy_app_elf started while the application ELF is missing leaves
\* firmware.elf as it is; the error either raises is a RuntimeError that
\* names a path that does not exist, and the step that raises it changes no
\* file and runs no command.
C11_MissingArtifactsFatal ==
    [][/\ (pc = "ready" /\ (~fs[McubootHex].exists \/ ~fs[AppHex].exists))
            => /\ cmd'.name # "mergehex.py"
               /\ fs'[MergedHex] = fs[MergedHex]
       /\ (pc = "ready" /\ ~fs[AppElf].exists /\ fs'[FirmwareElf].exists)
            => fs'[FirmwareElf] = fs[FirmwareElf]
       /\ (/\ pc = "ready"
           /\ pc' = "aborted"
           /\ error'.where \in {"merge_mcuboot", "copy_app_elf"})
            => /\ error'.type = "RuntimeError"
               /\ error'.path \in BuildOutputs
               /\ ~fs[error'.path].exists
               /\ fs' = fs
               /\ cmd' = NoCmd
      ]_vars

\* merge_mcuboot was called in an invocation that could have run the merge
\* script (it has a virtual environment), found the MCUboot hex missing and
\* raised, and there is no merged.hex
C11_Witness ==
    /\ pc = "aborted"
    /\ error.where = "merge_mcuboot"
    /\ error.path = McubootHex
    /\ venv_path
    /\ ~fs[MergedHex].exists

\* C12: the evaluation of _is_reconfigure_required, whether it returns True
\* or False or raises, leaves need_reconfigure, the module list, the
\* environment variables and every file (existence, content, modification
\* time) as they were.
C12_DecisionReadOnly ==
    [][(pc = "decide" /\ pc' # "decide")
          => /\ need_reconfigure' = need_reconfigure
             /\ modules' = modules
             /\ env' = env
             /\ fs' = fs
      ]_vars

\* the decision has returned False on an object that holds modules and
\* environment variables
C12_Witness ==
    /\ pc = "launch"
    /\ decision = "False"
    /\ modules # <<>>
    /\ env["PATH"] # Unset
    /\ env["ZEPHYR_SDK_INSTALL_DIR"] # Unset

C14_ModuleOrderIrrelevant ==
    [][(/\ WestConfigStep
        /\ hist.west.tpl = "west.yml.j2"
        /\ SetOf(modules) = SetOf(hist.west.items))
          => /\ fs'[WestYml] = fs[WestYml]
             /\ need_reconfigure' = need_reconfigure
      ]_vars

\* C15: once create_venv has returned normally in an invocation, venv_path
\* is set, and no later call of the invocation fails with "Virtual
\* environment is not created yet".
C15_VenvUsableAfterCreate ==
    hist.venv_called
        => /\ venv_path
           /\ ~(pc = "aborted" /\ error = NoVenvError(error.where))

\* C16: while an artifact rewritten by an earlier invocation has not been
\* followed by a reconfigure build that exited with 0, the decision of an
\* invocation that finds the artifacts up to date (need_reconfigure false)
\* is True: it is not False and it does not raise.  Stated for the case
\* where west.yml and CMakeCache.txt exist and no two of the modification
\* times that are compared are equal.
C16_NoLostSignal ==
    (/\ hist.pending
     /\ ~need_reconfigure
     /\ call # NoCall
     /\ fs[WestYml].exists
     /\ fs[CMakeCache].exists
     /\ fs[WestYml].mtime # fs[BuildDir].mtime
     /\ fs[CMakeTxt].mtime # fs[CMakeCache].mtime)
        => /\ ~DecisionRaised
           /\ DecisionReturned => decision = "True"

\* C17: in the invocation that follows one whose reconfigure build exited
\* with 0, with west.yml in place, given the same inputs (the same
\* CMakeLists.txt text is rendered) and with no file modified from outside
\* in between, build() does not rewrite CMakeLists.txt, the decision
\* returns False without raising, and west build is launched without -p.
C17_ConvergesToIncremental ==
    (/\ hist.built # NoContent
     /\ call # NoCall
     /\ hist.cmake = hist.built
     /\ fs[WestYml].exists)
        => /\ ~need_reconfigure
           /\ fs[CMakeTxt].content = hist.built
           /\ ~DecisionRaised
           /\ DecisionReturned => decision = "False"
           /\ cmd.name = "west build" => ~cmd.pristine

\* such a following invocation has taken its decision, later than the
\* build before it
C17_Witness ==
    /\ hist.built # NoContent
    /\ call # NoCall
    /\ hist.cmake = hist.built
    /\ fs[WestYml].exists
    /\ pc = "launch"
    /\ decision = "False"
    /\ now > fs[CMakeCache].mtime

(************************ the environment mapping ************************)
\* the step is one of an invocation: the mapping dies with the process
InInvocation == pc' # "idle"

\* a key other than PATH that is set keeps its value
WriteOnce ==
    \A k \in EnvKeys \ {"PATH"} : env[k] # Unset => env'[k] = env[k]

\* a PATH that is set and changes becomes new segments followed by the
\* segments it had
PathMerged ==
    (env["PATH"] # Unset /\ env'["PATH"] # env["PATH"])
        => \E v \in EnvValues : env'["PATH"] = v \o env["PATH"]

\* the step raises "Environment variable ... is already set"
ConflictRaised ==
    /\ pc # "aborted"
    /\ pc' = "aborted"
    /\ error'.type = "RuntimeError"
    /\ error'.path \in EnvKeys

\* C18 as stated: a key other than PATH never changes once set, a PATH
\* that is set gets the new segments in front of the ones it had, and
\* every call that raises on a key that is already set, set_env or
\* set_envs, leaves the whole mapping as it was before the call.
C18_WriteOnceWholeMapping ==
    [][InInvocation => /\ WriteOnce
                       /\ PathMerged
                       /\ ConflictRaised => env' = env]_vars

\* C18: a key other than PATH never changes once set, a PATH that is set
\* gets the new segments in front of the ones it had, a set_env call on a
\* key that is already set raises and leaves the whole mapping unchanged,
\* and a set_envs call that raises leaves the offending key as it was and
\* has touched only the keys its dict lists.
C18_WriteOnce ==
    [][InInvocation =>
         /\ WriteOnce
         /\ PathMerged
         /\ (ConflictRaised /\ error'.where # "load_env_from_script")
                => env' = env
         /\ (ConflictRaised /\ error'.where = "load_env_from_script")
                => /\ env'[error'.path] = env[error'.path]
                   /\ \A k \in EnvKeys :
                        env'[k] # env[k] => k \in KeysOf(ParseEnv(ret'.out))
      ]_vars

\* a second set of ZEPHYR_SDK_INSTALL_DIR has raised, after PATH was set
\* twice
C18_Witness ==
    /\ pc = "aborted"
    /\ error.where = "set_env"
    /\ error.path = "ZEPHYR_SDK_INSTALL_DIR"
    /\ env["ZEPHYR_SDK_INSTALL_DIR"] # Unset
    /\ Len(env["PATH"]) > 1

\* C19: whatever the sourced script prints, the environment setup of
\* install() raises no "already set" error, neither in
\* load_env_from_script nor in the set_env of ZEPHYR_BASE that follows it.
C19_InstallEnvNoConflict ==
    ~(/\ pc = "aborted"
      /\ error.type = "RuntimeError"
      /\ error.path \in EnvKeys
      /\ error.where \in {"load_env_from_script", "install"})
====
